---- MODULE Spec2Model ----
(***************************************************************************)
(* Model of src/main.py: the Cloud Run handler check_edinet_and_notify,    *)
(* which reads its configuration, loads the target EDINET codes from a     *)
(* spreadsheet, fetches the day's document list from the EDINET API and    *)
(* posts one Slack message per new disclosure of a target company, or one  *)
(* "no disclosures" summary.                                               *)
(*                                                                         *)
(* Strings are modelled as sequences of tokens: a spreadsheet cell and an  *)
(* EDINET code are sequences of characters; a submitDateTime string is the *)
(* sequence of its numeric fields, <<date, hour, minute>> for "Y-M-D H:M"  *)
(* and <<date, hour, minute, second>> for "Y-M-D H:M:S".  The external     *)
(* systems (environment variables, the spreadsheet, the EDINET document    *)
(* list, the wall clock and the webhook) are the environment: their state  *)
(* persists between runs of the handler, which itself keeps none.          *)
(***************************************************************************)
EXTENDS Integers, Sequences, FiniteSets, TLC

\* ------------------------------------------------------------------ bounds

\* longest EDINET document list of a day
MaxDocs == 2
\* number of invocations of the handler
MaxRuns == 2

\* ------------------------------------------------------- program constants

\* threshold_time = now.replace(hour=15, minute=45, second=0, microsecond=0)
ThresholdHour == 15
ThresholdMinute == 45
\* is_night_run = now.hour >= 16
NightHour == 16

\* return ..., 200 and return ..., 500
HTTP_OK == 200
HTTP_ERROR == 500

\* ------------------------------------------------------------ input domains

\* os.environ.get(...) yields None, or the string that is set
EnvValues == {"None", "", "set"}

\* calendar dates (days since some epoch)
Dates == {1, 2}

\* wall-clock readings of datetime.now(JST): [date, hour, minute, second]
ClockValues ==
    { [date |-> d, hour |-> t[1], minute |-> t[2], second |-> t[3]] :
        d \in Dates, t \in {<<15, 59, 59>>, <<16, 0, 0>>} }

\* what opening the spreadsheet and reading column A can give: an error, or the
\* cells of the column, each a string
SheetValues ==
    { [outcome |-> o, col |-> << >>] :
        o \in {"SpreadsheetNotFound", "WorksheetNotFound", "Exception"} }
    \cup
    { [outcome |-> "ok", col |-> c] :
        c \in { << >>,
                << <<"X", "1">>, << >> >>,
                << <<" ", "E", "1", " ">>, <<"E", "1">>, <<"X", "1">> >>,
                << <<"E", "2">>, << >>, <<"E", "1">> >> } }

\* edinetCode values of the documents
DocCodes == { <<"E", "1">>, <<"E", "2">> }

\* submitDateTime values of the documents: None (null or absent), or a string
SubmitValues ==
    { [isNone |-> TRUE, text |-> << >>] }
    \cup
    { [isNone |-> FALSE, text |-> t] :
        t \in { << >>, <<1, 15, 45>>, <<1, 15, 46>>, <<1, 15, 45, 0>>, <<1, 15, 45, 1>>,
                <<1, 24, 0>>, <<2, 15, 46>> } }

\* documents as filed: issuer code and submission time
Filed == [edinetCode : DocCodes, submitDateTime : SubmitValues]

\* the filings of a period: at most n documents, in the order of the list
Filings(n) == UNION { [1..k -> Filed] : k \in 0..n }

\* the EDINET list gives each document a docID of its own: here, its position
Numbered(filed, base) ==
    [ i \in 1..Len(filed) |->
        [docID |-> base + i,
         edinetCode |-> filed[i].edinetCode,
         submitDateTime |-> filed[i].submitDateTime] ]

\* outcomes of session.get on the document list
FetchOutcomes ==
    {"ok", "null_results", "non200", "RequestException", "JSONDecodeError", "not_an_object"}

\* the answers that are a 200 with a JSON object: the fetch itself worked
HttpGetSucceeded(outcome) == outcome \in {"ok", "null_results"}

\* outcomes of session.post on the webhook
PostOutcomes == {"200", "non200", "Exception"}

VARIABLES
    environ,             \* os.environ: SPREADSHEET_ID, SLACK_WEBHOOK_URL
    sheet,               \* the spreadsheet, as the run will find it
    edinet,              \* the EDINET document list (append-only, docID = position)
    pc,                  \* position of the handler
    runs,                \* invocations started so far
    target_codes_set,
    now,                 \* last reading of the wall clock
    results,
    idx,                 \* position of the for loop in results
    notification_count,
    status,              \* status code returned by the run, 0 while it runs
    calls,               \* external calls made by the current run, in order
    dayPosted            \* <<date, docID>> posted by daytime runs so far

vars == << environ, sheet, edinet, pc, runs, target_codes_set, now, results, idx,
           notification_count, status, calls, dayPosted >>

\* ----------------------------------------------------------------- helpers

\* Python truthiness of an environment value: None and "" are falsy
Falsy(v) == v \in {"None", ""}

IsSpace(ch) == ch = " "

RECURSIVE LStrip(_)
LStrip(s) == IF s # << >> /\ IsSpace(Head(s)) THEN LStrip(Tail(s)) ELSE s

RECURSIVE RStrip(_)
RStrip(s) ==
    IF s # << >> /\ IsSpace(s[Len(s)]) THEN RStrip(SubSeq(s, 1, Len(s) - 1)) ELSE s

\* str.strip()
Strip(s) == RStrip(LStrip(s))

\* str.startswith('E')
StartsWithE(s) == s # << >> /\ Head(s) = "E"

\* clean_codes = [str(c).strip() for c in codes if c and str(c).strip().startswith('E')]
RECURSIVE CleanCodes(_)
CleanCodes(codes) ==
    IF codes = << >> THEN << >>
    ELSE IF Head(codes) # << >> /\ StartsWithE(Strip(Head(codes)))
         THEN <<Strip(Head(codes))>> \o CleanCodes(Tail(codes))
         ELSE CleanCodes(Tail(codes))

\* get_target_codes_from_sheet: [] on any error, else the cleaned column
get_target_codes_from_sheet(sheet_id, sh) ==
    IF Falsy(sheet_id) THEN << >>
    ELSE IF sh.outcome # "ok" THEN << >>
    ELSE CleanCodes(sh.col)

\* whether get_target_codes_from_sheet reaches the spreadsheet at all
SheetRead(sheet_id) == ~Falsy(sheet_id)

\* set(target_edinet_codes)
SetOf(seq) == { seq[i] : i \in 1..Len(seq) }

\* variant: only the spreadsheet identifier is validated
ConfigMissing_SheetOnly(sheet_id, webhook_url) == Falsy(sheet_id)

\* if not sheet_id or not webhook_url
ConfigMissing(sheet_id, webhook_url) == Falsy(sheet_id) \/ Falsy(webhook_url)

\* variant: the night run begins after the 16 o'clock hour
IsNightRun_Exclusive(t) == t.hour > NightHour

\* is_night_run = now.hour >= 16
IsNightRun(t) == t.hour >= NightHour

\* threshold_time = now.replace(hour=15, minute=45, second=0, microsecond=0)
ThresholdTime(t) ==
    [date |-> t.date, hour |-> ThresholdHour, minute |-> ThresholdMinute, second |-> 0]

\* position of an aware datetime on the time line, in seconds
Instant(dt) == ((dt.date * 24 + dt.hour) * 60 + dt.minute) * 60 + dt.second

\* variant: a parser that accepts text after the minutes
StrptimeFails_Lenient(text) ==
    \/ Len(text) < 3
    \/ text[2] \notin 0..23
    \/ text[3] \notin 0..59

\* datetime.strptime(submit_str, '%Y-%m-%d %H:%M') raises ValueError unless the
\* text is exactly a date, an hour in 0..23 and a minute in 0..59
StrptimeFails(text) ==
    \/ Len(text) # 3
    \/ text[2] \notin 0..23
    \/ text[3] \notin 0..59

Strptime(text) == [date |-> text[1], hour |-> text[2], minute |-> text[3], second |-> 0]

\* if not submit_str: continue
SubmitMissing(submit) == submit.isNone \/ submit.text = << >>

\* variant: the threshold itself passes the night filter (< for <=)
ShouldNotify_Strict(is_night_run, submit_dt, threshold_time) ==
    ~(is_night_run /\ Instant(submit_dt) < Instant(threshold_time))

\* variant: the threshold is applied to daytime runs too
ShouldNotify_AnyRun(is_night_run, submit_dt, threshold_time) ==
    ~(Instant(submit_dt) <= Instant(threshold_time))

\* should_notify = True; if is_night_run and submit_dt <= threshold_time: False
ShouldNotify(is_night_run, submit_dt, threshold_time) ==
    ~(is_night_run /\ Instant(submit_dt) <= Instant(threshold_time))

\* variant: the membership test is dropped
InTargets_Always(edinet_code, targets) == TRUE

\* if edinet_code in target_codes_set
InTargets(edinet_code, targets) == edinet_code \in targets

\* variant: only the status code is checked, an exception reads as no results
FetchFailed_StatusOnly(outcome) == outcome = "non200"

\* fetch_edinet_documents: None on a failure, else the list ([] for null results)
FetchFailed(outcome) == outcome \in {"non200", "RequestException", "JSONDecodeError"}

\* data.get("results") on a body that is no JSON object raises AttributeError,
\* which only the handler's outermost except catches
FetchRaises(outcome) == outcome = "not_an_object"

FetchResults(outcome, docs) == IF outcome = "ok" THEN docs ELSE << >>

\* notify_slack: no request at all without a webhook URL
WebhookCalled(webhook_url) == ~Falsy(webhook_url)

\* notify_slack: True only on a 200 answer
PostOk(webhook_url, outcome) == WebhookCalled(webhook_url) /\ outcome = "200"

\* the log of external calls after notify_slack(webhook_url, ...)
AfterNotify(cs, webhook_url, kind, docID, outcome) ==
    IF WebhookCalled(webhook_url)
    THEN Append(cs, [kind |-> kind, docID |-> docID, ok |-> PostOk(webhook_url, outcome)])
    ELSE cs

\* variant: a failed post resets the count
CountAfter_Reset(count, ok) == IF ok THEN count + 1 ELSE 0

\* if notify_slack(webhook_url, message): notification_count += 1
CountAfter(count, ok) == IF ok THEN count + 1 ELSE count

\* variant: the summary is tied to a count that cannot occur
NeedsSummary_Never(count) == count < 0

\* if notification_count == 0: send the summary
NeedsSummary(count) == count = 0

Call(kind, docID, ok) == [kind |-> kind, docID |-> docID, ok |-> ok]

\* the action of the loop body on one document: "skip", or "notify"
DocDecision(doc, targets, t) ==
    IF ~InTargets(doc.edinetCode, targets) THEN "skip"
    ELSE IF SubmitMissing(doc.submitDateTime) THEN "skip"
    ELSE IF StrptimeFails(doc.submitDateTime.text) THEN "skip"
    ELSE IF ShouldNotify(IsNightRun(t), Strptime(doc.submitDateTime.text), ThresholdTime(t))
         THEN "notify"
         ELSE "skip"

\* ------------------------------------------------------------------- state

Init ==
    /\ environ \in [SPREADSHEET_ID : EnvValues, SLACK_WEBHOOK_URL : EnvValues]
    /\ sheet \in SheetValues
    /\ edinet = << >>
    /\ pc = "idle"
    /\ runs = 0
    /\ target_codes_set = {}
    /\ now \in { t \in ClockValues : \A u \in ClockValues : Instant(t) <= Instant(u) }
    /\ results = << >>
    /\ idx = 1
    /\ notification_count = 0
    /\ status = 0
    /\ calls = << >>
    /\ dayPosted = {}

\* lines 172-181: a request arrives; the configuration is read and validated
CheckConfig ==
    /\ pc \in {"idle", "done"}
    /\ runs < MaxRuns
    /\ runs' = runs + 1
    /\ calls' = << >>
    /\ target_codes_set' = {}
    /\ results' = << >>
    /\ idx' = 1
    /\ notification_count' = 0
    /\ IF ConfigMissing(environ.SPREADSHEET_ID, environ.SLACK_WEBHOOK_URL)
       THEN pc' = "done" /\ status' = HTTP_ERROR
       ELSE pc' = "sheet" /\ status' = 0
    /\ UNCHANGED << environ, sheet, edinet, now, dayPosted >>

\* lines 183-191: the target list is loaded
GetTargetCodes ==
    /\ pc = "sheet"
    /\ LET codes == get_target_codes_from_sheet(environ.SPREADSHEET_ID, sheet)
       IN /\ calls' = IF SheetRead(environ.SPREADSHEET_ID)
                      THEN Append(calls, Call("sheet", 0, sheet.outcome = "ok"))
                      ELSE calls
          /\ IF codes = << >>
             THEN /\ pc' = "done"
                  /\ status' = HTTP_ERROR
                  /\ UNCHANGED target_codes_set
             ELSE /\ pc' = "clock"
                  /\ target_codes_set' = SetOf(codes)
                  /\ UNCHANGED status
    /\ UNCHANGED << environ, sheet, edinet, runs, now, results, idx,
                    notification_count, dayPosted >>

\* lines 193-201: the wall clock is read, once; time never runs backwards
ReadClock ==
    /\ pc = "clock"
    /\ \E t \in ClockValues :
         /\ Instant(t) >= Instant(now)
         /\ now' = t
    /\ pc' = "fetch"
    /\ UNCHANGED << environ, sheet, edinet, runs, target_codes_set, results, idx,
                    notification_count, status, calls, dayPosted >>

\* lines 203-209 (and 274-276): the document list is fetched; the documents filed
\* since the last fetch have been appended to it
FetchDocuments ==
    /\ pc = "fetch"
    /\ \E outcome \in FetchOutcomes, filed \in Filings(MaxDocs - Len(edinet)) :
         LET docs == edinet \o Numbered(filed, Len(edinet))
         IN /\ edinet' = docs
            /\ calls' = Append(calls, Call("fetch", 0, HttpGetSucceeded(outcome)))
            /\ IF FetchFailed(outcome) \/ FetchRaises(outcome)
               THEN /\ pc' = "done"
                    /\ status' = HTTP_ERROR
                    /\ UNCHANGED results
               ELSE /\ pc' = "loop"
                    /\ results' = FetchResults(outcome, docs)
                    /\ UNCHANGED status
    /\ idx' = 1
    /\ notification_count' = 0
    /\ UNCHANGED << environ, sheet, runs, target_codes_set, now, dayPosted >>

\* lines 212-254: one iteration of the for loop
LoopStep ==
    /\ pc = "loop"
    /\ idx <= Len(results)
    /\ LET doc == results[idx]
       IN IF DocDecision(doc, target_codes_set, now) = "notify"
          THEN \E outcome \in PostOutcomes :
                 /\ calls' = AfterNotify(calls, environ.SLACK_WEBHOOK_URL, "post",
                                         doc.docID, outcome)
                 /\ notification_count' =
                        CountAfter(notification_count,
                                   PostOk(environ.SLACK_WEBHOOK_URL, outcome))
                 /\ dayPosted' = IF IsNightRun(now) THEN dayPosted
                                 ELSE dayPosted \cup {<<now.date, doc.docID>>}
          ELSE UNCHANGED << calls, notification_count, dayPosted >>
    /\ idx' = idx + 1
    /\ UNCHANGED << environ, sheet, edinet, pc, runs, target_codes_set, now, results,
                    status >>

\* lines 256-272: the summary when nothing was notified, and the return
Finish ==
    /\ pc = "loop"
    /\ idx > Len(results)
    /\ IF NeedsSummary(notification_count)
       THEN \E outcome \in PostOutcomes :
              calls' = AfterNotify(calls, environ.SLACK_WEBHOOK_URL, "summary", 0, outcome)
       ELSE UNCHANGED calls
    /\ pc' = "done"
    /\ status' = HTTP_OK
    /\ UNCHANGED << environ, sheet, edinet, runs, target_codes_set, now, results, idx,
                    notification_count, dayPosted >>

Next ==
    \/ CheckConfig
    \/ GetTargetCodes
    \/ ReadClock
    \/ FetchDocuments
    \/ LoopStep
    \/ Finish

Spec == Init /\ [][Next]_vars

\* ------------------------------------------------- vocabulary of the claims

\* the run has returned
Returned == pc = "done"

\* the run has returned after a fetch that gave it a document list
ReachedNotification == pc = "done" /\ status = HTTP_OK

DayRun == now.hour < NightHour
NightRun == now.hour >= NightHour

\* the issuer code of the document is in the target set
Matched(doc) == doc.edinetCode \in target_codes_set

\* "YYYY-MM-DD HH:MM": a date, an hour of the day and a minute of the hour
WellFormed(text) == Len(text) = 3 /\ text[2] \in 0..23 /\ text[3] \in 0..59

\* the submission timestamp is missing, or does not parse
BadStamp(submit) == submit.isNone \/ ~WellFormed(submit.text)

\* the time the text of a timestamp states, in seconds; seconds are 0 if unstated
StatedSeconds(text) ==
    ((text[1] * 24 + text[2]) * 60 + text[3]) * 60 + (IF Len(text) >= 4 THEN text[4] ELSE 0)

\* 15:45:00 of the run's calendar date, in seconds
CutOff == ((now.date * 24 + ThresholdHour) * 60 + ThresholdMinute) * 60

\* the text states a time of day, with or without seconds
StatesTime(submit) == ~submit.isNone /\ Len(submit.text) \in {3, 4}

\* the cell holds a code: its first character that is no blank is an E
IsCode(cell) ==
    \E p \in 1..Len(cell) : cell[p] = "E" /\ \A q \in 1..(p - 1) : cell[q] = " "

\* the policy: matched, timestamp valid, and in a night run strictly after 15:45
Eligible(doc) ==
    /\ Matched(doc)
    /\ ~BadStamp(doc.submitDateTime)
    /\ NightRun => StatedSeconds(doc.submitDateTime.text) > CutOff

IsPost(c) == c.kind = "post"
IsSummary(c) == c.kind = "summary"
IsWebhook(c) == c.kind \in {"post", "summary"}

NumCalls(Test(_)) == Cardinality({ i \in 1..Len(calls) : Test(calls[i]) })

\* number of webhook posts made for the document
PostsFor(id) == Cardinality({ i \in 1..Len(calls) : IsPost(calls[i]) /\ calls[i].docID = id })

\* docIDs of the per-record posts, in the order of the calls
PostedIDs == LET ps == SelectSeq(calls, IsPost) IN [ i \in 1..Len(ps) |-> ps[i].docID ]

\* docIDs of the eligible records, in the order of the fetched list
EligibleIDs ==
    LET es == SelectSeq(results, Eligible) IN [ i \in 1..Len(es) |-> es[i].docID ]

\* the fetch of this run was answered with a 200 and a JSON object
FetchSucceeded == \E i \in 1..Len(calls) : calls[i].kind = "fetch" /\ calls[i].ok
FetchDidFail == \E i \in 1..Len(calls) : calls[i].kind = "fetch" /\ ~calls[i].ok

\* ------------------------------------------------------------------ claims

\* C1 (as stated): no record is posted both by a daytime run and by a later
\* night run of the same calendar day, whatever the time of the daytime run and
\* the submission time of the record.
C1_NeverDoubleNotifies ==
    NightRun =>
        \A i \in 1..Len(calls) :
            IsPost(calls[i]) => <<now.date, calls[i].docID>> \notin dayPosted

\* C1 (amended): a record whose submission time is at or before 15:45 of the
\* run's date is never posted both by a daytime run and by a later night run of
\* that day; only records stamped after 15:45 can be posted by both.
C1_NoDoubleUpToThreshold ==
    NightRun =>
        \A i \in 1..Len(calls) :
            (IsPost(calls[i]) /\ <<now.date, calls[i].docID>> \in dayPosted)
                => StatedSeconds(edinet[calls[i].docID].submitDateTime.text) > CutOff

\* a night run has returned with, in its list, a record at or before 15:45 that
\* the daytime run of the day had posted, and has not posted it again
C1_Witness ==
    /\ ReachedNotification
    /\ NightRun
    /\ \E i \in 1..Len(results) :
         /\ <<now.date, results[i].docID>> \in dayPosted
         /\ StatedSeconds(results[i].submitDateTime.text) <= CutOff
         /\ PostsFor(results[i].docID) = 0

\* C2 (as stated): in a night run a matched record stating exactly 15:45:00 of
\* the run's date is not selected, and one stating 15:45:01 is selected.
C2_BoundaryAtOneSecond ==
    (ReachedNotification /\ NightRun) =>
        \A i \in 1..Len(results) :
            (Matched(results[i]) /\ StatesTime(results[i].submitDateTime)) =>
                LET t == StatedSeconds(results[i].submitDateTime.text)
                IN /\ t = CutOff => PostsFor(results[i].docID) = 0
                   /\ t = CutOff + 1 => PostsFor(results[i].docID) = 1

\* C2 (amended): in a night run a matched record stamped exactly 15:45 of the
\* run's date is not selected and one stamped a minute later, 15:46, is selected:
\* the boundary is exclusive at the one-minute resolution of the timestamp
\* format; a timestamp that states seconds (15:45:01) does not parse and is not
\* selected.
C2_BoundaryAtOneMinute ==
    (ReachedNotification /\ NightRun) =>
        \A i \in 1..Len(results) :
            (Matched(results[i]) /\ StatesTime(results[i].submitDateTime)) =>
                LET text == results[i].submitDateTime.text
                    t == StatedSeconds(text)
                IN /\ t = CutOff => PostsFor(results[i].docID) = 0
                   /\ (t = CutOff + 60 /\ Len(text) = 3) => PostsFor(results[i].docID) = 1
                   /\ Len(text) = 4 => PostsFor(results[i].docID) = 0

\* a night run has returned whose list held a matched record at 15:45 that was
\* not posted and a matched record at 15:46 that was
C2_Witness ==
    /\ ReachedNotification
    /\ NightRun
    /\ \E i, j \in 1..Len(results) :
         /\ Matched(results[i]) /\ Matched(results[j])
         /\ results[i].submitDateTime.text = <<now.date, ThresholdHour, ThresholdMinute>>
         /\ results[j].submitDateTime.text = <<now.date, ThresholdHour, ThresholdMinute + 1>>
         /\ PostsFor(results[i].docID) = 0
         /\ PostsFor(results[j].docID) = 1

\* C3: in a daytime run every matched record whose timestamp is present and
\* parses is selected (a post is attempted for it), whatever time it states.
C3_DaytimeSelectsAllValid ==
    (ReachedNotification /\ DayRun) =>
        \A i \in 1..Len(results) :
            (Matched(results[i]) /\ ~BadStamp(results[i].submitDateTime))
                => PostsFor(results[i].docID) = 1

\* a daytime run has posted a matched record stamped later than the run itself
C3_Witness ==
    /\ ReachedNotification
    /\ DayRun
    /\ \E i \in 1..Len(results) :
         /\ Matched(results[i])
         /\ ~BadStamp(results[i].submitDateTime)
         /\ StatedSeconds(results[i].submitDateTime.text) > Instant(now)
         /\ PostsFor(results[i].docID) = 1

\* C4: a record whose issuer code is not in the target set never causes a
\* per-record post, whatever its timestamp and the kind of run.
C4_UnmatchedNeverPosted ==
    \A i \in 1..Len(results) :
        ~Matched(results[i]) => PostsFor(results[i].docID) = 0

\* a run has returned that posted one record and passed over a record of another
\* issuer with the same, valid, timestamp
C4_Witness ==
    /\ ReachedNotification
    /\ \E i, j \in 1..Len(results) :
         /\ ~Matched(results[i])
         /\ Matched(results[j])
         /\ results[i].submitDateTime = results[j].submitDateTime
         /\ PostsFor(results[i].docID) = 0
         /\ PostsFor(results[j].docID) = 1

\* C5: a run with zero eligible records issues exactly one summary call and no
\* per-record call.
C5_NoEligibleOneSummary ==
    (ReachedNotification /\ EligibleIDs = << >>) =>
        /\ NumCalls(IsSummary) = 1
        /\ NumCalls(IsPost) = 0

\* a night run has sent the summary because its only matched records were at or
\* before 15:45, or had no usable timestamp
C5_Witness ==
    /\ ReachedNotification
    /\ NightRun
    /\ Len(results) >= 2
    /\ \A i \in 1..Len(results) : Matched(results[i])
    /\ \E i \in 1..Len(results) : ~BadStamp(results[i].submitDateTime)
    /\ \E i \in 1..Len(results) : BadStamp(results[i].submitDateTime)
    /\ NumCalls(IsSummary) = 1

\* C6 (as stated): the summary is posted if and only if no record was selected,
\* whether or not the per-record posts succeeded.
C6_SummaryIffNoneSelected ==
    ReachedNotification => (NumCalls(IsSummary) = 1 <=> NumCalls(IsPost) = 0)

\* C7: a failed fetch ends the run with status 500 and no webhook call; a fetch
\* that succeeds with zero results ends it with status 200 and the one summary.
C7_FailureIsNotEmpty ==
    Returned =>
        /\ FetchDidFail => (status = HTTP_ERROR /\ NumCalls(IsWebhook) = 0)
        /\ (FetchSucceeded /\ results = << >>) =>
              /\ status = HTTP_OK
              /\ NumCalls(IsSummary) = 1
              /\ NumCalls(IsPost) = 0

\* a run has failed on the fetch although documents of target issuers were filed
C7_Witness ==
    /\ Returned
    /\ FetchDidFail
    /\ status = HTTP_ERROR
    /\ \E i \in 1..Len(edinet) : Matched(edinet[i]) /\ ~BadStamp(edinet[i].submitDateTime)

\* C8: with a required setting missing the run returns 500 before any external
\* call; with the target list unreachable, misnamed or without codes it returns
\* 500 before the fetch and without a webhook post.
C8_FailFast ==
    Returned =>
        /\ (environ.SPREADSHEET_ID \in {"None", ""} \/ environ.SLACK_WEBHOOK_URL \in {"None", ""})
              => (status = HTTP_ERROR /\ calls = << >>)
        /\ (sheet.outcome # "ok" \/ \A k \in 1..Len(sheet.col) : ~IsCode(sheet.col[k]))
              => /\ status = HTTP_ERROR
                 /\ \A i \in 1..Len(calls) : calls[i].kind = "sheet"

\* a run with its settings present has read a worksheet without codes and returned
C8_Witness ==
    /\ Returned
    /\ status = HTTP_ERROR
    /\ sheet.outcome = "ok"
    /\ sheet.col # << >>
    /\ Len(calls) = 1
    /\ calls[1].kind = "sheet"

\* C9: a failed webhook call does not abort the run: one post is attempted for
\* each eligible record, in the order of the list, the count of notifications
\* sent never goes down during the loop, and the run returns 200.
C9_NotifyErrorIsLocal ==
    [][ /\ (pc = "loop" /\ pc' \in {"loop", "done"}) =>
              /\ notification_count' >= notification_count
              /\ status' \in {0, HTTP_OK}
        /\ (pc = "loop" /\ pc' = "done") =>
              /\ status' = HTTP_OK
              /\ PostedIDs' = EligibleIDs' ]_vars

\* a run has returned 200 after a failed post was followed by a successful one
C9_Witness ==
    /\ ReachedNotification
    /\ \E i, j \in 1..Len(calls) :
         /\ i < j
         /\ IsPost(calls[i]) /\ ~calls[i].ok
         /\ IsPost(calls[j]) /\ calls[j].ok
    /\ notification_count = 1

\* C10: a matched record whose timestamp is missing or does not parse is skipped
\* without a post and without stopping the loop: the records after it are still
\* notified when eligible, and the run returns 200.
C10_BadStampSkipped ==
    (Returned /\ FetchSucceeded) =>
        \A i \in 1..Len(results) :
            (Matched(results[i]) /\ BadStamp(results[i].submitDateTime)) =>
                /\ status = HTTP_OK
                /\ PostsFor(results[i].docID) = 0
                /\ \A j \in (i + 1)..Len(results) :
                       Eligible(results[j]) => PostsFor(results[j].docID) = 1

\* a run has returned after a matched record that does not parse was followed by
\* a record that was posted
C10_Witness ==
    /\ ReachedNotification
    /\ \E i, j \in 1..Len(results) :
         /\ i < j
         /\ Matched(results[i])
         /\ ~results[i].submitDateTime.isNone
         /\ BadStamp(results[i].submitDateTime)
         /\ PostsFor(results[j].docID) = 1

====
